---- MODULE Spec2Model ----
(***************************************************************************)
(* Model of mir_eval/util.py: the event matcher (match_events over         *)
(* _bipartite_match), the range adjusters (adjust_intervals,               *)
(* adjust_events), the merger (merge_labeled_intervals) and the sampler    *)
(* (intervals_to_samples over interpolate_intervals).                      *)
(*                                                                         *)
(* Times are integers (ticks).  Indices are 0-based as in the source; a    *)
(* Python list or array is a sequence read with At.  A Python dict is a    *)
(* function whose DOMAIN is its key set.  The dicts G, pred and matching   *)
(* are iterated in ascending key order (KeyOrder): that is the order in    *)
(* which G and pred are filled and the slot order of CPython 2 for small   *)
(* integer keys.  For newLayer the two orders differ, and both are taken   *)
(* (NewLayerOrders).                                                       *)
(***************************************************************************)
EXTENDS Integers, Sequences, FiniteSets

\* Bounds of the model.
MaxEvents == 3
MaxEventTime == 2
MaxWindow == 1
MaxTime == 4
MaxIntervals == 3
MaxOffset == 3
MaxSampleSize == 2

VARIABLES
    pc,         \* position in the function being run
    raised,     \* the exception raised, "" when none
    ref,        \* match_events: reference event times
    est,        \* match_events: estimated event times
    window,     \* match_events: tolerance
    G,          \* match_events: graph, ref index -> list of est indices
    matching,   \* _bipartite_match: dict est index -> ref index
    preds,      \* _bipartite_match: dict est index -> list of ref indices
    pred,       \* _bipartite_match: dict ref index -> est index or UNMATCHED
    unmatched,  \* _bipartite_match: list of unmatched est indices of the last layer
    layer,      \* _bipartite_match: list of ref indices of the current layer
    round,      \* _bipartite_match: number of the `while True` iteration
    result,     \* match_events: the returned list
    call,           \* the adjuster that is running
    args,           \* the arguments as the caller passed them
    caller_labels,  \* the caller's labels list object, as it is now
    intervals,      \* adjust_intervals: the local `intervals`
    events,         \* adjust_events: the local `events`
    labels,         \* the list the local `labels` refers to
    labels_shared,  \* the local `labels` refers to the caller's list object
    t_min,          \* lower end of the range, or None
    t_max,          \* upper end of the range, or None
    x_intervals,        \* merge_labeled_intervals: argument
    x_labels,           \* merge_labeled_intervals: argument
    y_intervals,        \* merge_labeled_intervals: argument
    y_labels,           \* merge_labeled_intervals: argument
    output_intervals,   \* merge_labeled_intervals: result
    x_labels_out,       \* merge_labeled_intervals: result
    y_labels_out,       \* merge_labeled_intervals: result
    offset,             \* intervals_to_samples: argument
    sample_size,        \* intervals_to_samples: argument
    sample_times,       \* intervals_to_samples: result
    sampled_labels      \* intervals_to_samples: result

matchVars == <<ref, est, window, G, matching, preds, pred, unmatched, layer, round, result>>
adjustVars == <<call, args, caller_labels, intervals, events, labels, labels_shared,
                t_min, t_max>>
mergeVars == <<x_intervals, x_labels, y_intervals, y_labels, output_intervals,
               x_labels_out, y_labels_out>>
sampleVars == <<offset, sample_size, sample_times, sampled_labels>>
vars == <<pc, raised, matchVars, adjustVars, mergeVars, sampleVars>>

----------------------------------------------------------------------------
\* Python containers.

At(s, i) == s[i + 1]

Range(s) == {s[k] : k \in DOMAIN s}

Abs(x) == IF x < 0 THEN -x ELSE x

EmptyDict == [k \in {} |-> 0]

Put(d, k, val) == [x \in (DOMAIN d) \cup {k} |-> IF x = k THEN val ELSE d[x]]

Del(d, k) == [x \in (DOMAIN d) \ {k} |-> d[x]]

\* The ascending enumeration of a finite set of integers.
RECURSIVE SortedSeq(_)
SortedSeq(S) ==
    IF S = {} THEN <<>>
    ELSE LET m == CHOOSE x \in S : \A y \in S : x <= y
         IN <<m>> \o SortedSeq(S \ {m})

KeyOrder(d) == SortedSeq(DOMAIN d)

\* All sequences over S of length at most n, and the non-decreasing ones.
SeqsUpTo(S, n) == UNION {[1..k -> S] : k \in 0..n}

SortedSeqsUpTo(S, n) ==
    {s \in SeqsUpTo(S, n) : \A k \in 1..(Len(s) - 1) : s[k] <= s[k + 1]}

Max2(a, b) == IF a >= b THEN a ELSE b

Min2(a, b) == IF a <= b THEN a ELSE b

\* s[a:] and s[:b] for 0 <= a, b.
DropFirst(s, a) == SubSeq(s, a + 1, Len(s))

TakeFirst(s, b) == SubSeq(s, 1, Min2(b, Len(s)))

\* intervals[:, c], a column of an interval array.
Column(iv, c) == [k \in DOMAIN iv |-> iv[k][c + 1]]

\* s >= t, s > t and t >= s over an array: the boolean array.
AtLeast(s, t) == [k \in DOMAIN s |-> s[k] >= t]

Above(s, t) == [k \in DOMAIN s |-> s[k] > t]

AtMost(s, t) == [k \in DOMAIN s |-> s[k] <= t]

\* np.argwhere of a boolean array: the 0-based indices where it holds.
ArgWhere(mask) == SortedSeq({k \in 0..(Len(mask) - 1) : At(mask, k)})

\* Non-decreasing, and strictly increasing, non-empty sequences of times.
Boundaries(T, n) ==
    {b \in UNION {[1..k -> T] : k \in 2..(n + 1)} :
        \A k \in 1..(Len(b) - 1) : b[k] <= b[k + 1]}

\* The contiguous interval sequence over the boundaries b.
Contiguous(b) == [k \in 1..(Len(b) - 1) |-> <<b[k], b[k + 1]>>]

LabelNames == <<"a", "b", "c", "d", "e", "f", "g", "h">>

LabelsFor(n) == SubSeq(LabelNames, 1, n)

----------------------------------------------------------------------------
\* match_events, lines 505-513: the feasible pairings and the graph.

\* Mutant of Hit: the np.abs of line 506 is missing.
HitOneSided(r, e, w, i, j) == At(r, i) - At(e, j) <= w

\* line 506: ref[i] and est[j] are within the window of each other.
Hit(r, e, w, i, j) == Abs(At(r, i) - At(e, j)) <= w

\* np.where lists the hits in row-major order, so G[ref_i] is ascending in est_i.
BuildGraph(r, e, w) ==
    LET keys == {i \in 0..(Len(r) - 1) : \E j \in 0..(Len(e) - 1) : Hit(r, e, w, i, j)}
    IN [i \in keys |-> SortedSeq({j \in 0..(Len(e) - 1) : Hit(r, e, w, i, j)})]

----------------------------------------------------------------------------
\* _bipartite_match.

UNMATCHED == -1

\* lines 420-423: the first neighbour of u that is not matched yet, if any.
RECURSIVE GreedyClaim(_, _, _, _)
GreedyClaim(m, u, nbrs, k) ==
    IF k > Len(nbrs) THEN m
    ELSE IF nbrs[k] \notin DOMAIN m THEN Put(m, nbrs[k], u)
    ELSE GreedyClaim(m, u, nbrs, k + 1)

\* lines 418-423: the greedy matching over the keys of graph in order.
RECURSIVE GreedyLoop(_, _, _, _)
GreedyLoop(graph, order, k, m) ==
    IF k > Len(order) THEN m
    ELSE GreedyLoop(graph, order, k + 1, GreedyClaim(m, order[k], graph[order[k]], 1))

GreedyMatching(graph) == GreedyLoop(graph, KeyOrder(graph), 1, EmptyDict)

\* lines 433-435: the unmatched members of U, flagged as first layer.
FirstLayerPred(graph, m) ==
    [u \in (DOMAIN graph) \ {m[v] : v \in DOMAIN m} |-> UNMATCHED]

\* lines 434-435: some pred[matching[v]] is deleted a second time, or is no key.
DeletesTwice(graph, m) ==
    \/ \E v, w \in DOMAIN m : v # w /\ m[v] = m[w]
    \/ \E v \in DOMAIN m : m[v] \notin DOMAIN graph

\* lines 440-444: newLayer, est index -> the members of layer adjacent to it.
NewLayer(graph, lay, ps) ==
    LET reached == {v \in UNION {Range(graph[lay[k]]) : k \in DOMAIN lay} : v \notin DOMAIN ps}
    IN [v \in reached |->
          LET adj(u) == v \in Range(graph[u]) IN SelectSeq(lay, adj)]

\* The keys of newLayer in the order of their first insertion (lines 441-444).
RECURSIVE FirstSeen(_, _)
FirstSeen(s, seen) ==
    IF s = <<>> THEN <<>>
    ELSE IF Head(s) \in seen THEN FirstSeen(Tail(s), seen)
    ELSE <<Head(s)>> \o FirstSeen(Tail(s), seen \cup {Head(s)})

RECURSIVE Flatten(_, _)
Flatten(graph, lay) ==
    IF lay = <<>> THEN <<>> ELSE graph[Head(lay)] \o Flatten(graph, Tail(lay))

InsertionOrder(graph, lay, ps) == FirstSeen(Flatten(graph, lay), DOMAIN ps)

\* `for v in newLayer`: slot order (CPython 2) or insertion order (CPython 3.7+).
NewLayerOrders(graph, lay, ps) ==
    {KeyOrder(NewLayer(graph, lay, ps)), InsertionOrder(graph, lay, ps)}

\* lines 445-452 over newLayer in the given order.
RECURSIVE AbsorbLayer(_, _, _, _)
AbsorbLayer(nl, order, k, s) ==
    IF k > Len(order) THEN s
    ELSE LET v == order[k]
             s1 == [s EXCEPT !.preds = Put(s.preds, v, nl[v])]
         IN IF v \in DOMAIN s.matching
            THEN AbsorbLayer(nl, order, k + 1,
                    [s1 EXCEPT !.layer = Append(s1.layer, s.matching[v]),
                               !.pred = Put(s1.pred, s.matching[v], v)])
            ELSE AbsorbLayer(nl, order, k + 1,
                    [s1 EXCEPT !.unmatched = Append(s1.unmatched, v)])

\* lines 465-476: recurse(v) on the state s = [preds, pred, matching];
\* the result carries the return value in found.
RECURSIVE Recurse(_, _)
RECURSIVE RecurseLoop(_, _, _, _)

\* Mutant of RecurseLoop: the first-layer flag of line 473 is never recognised.
RecurseLoopNoFlag(v, L, k, s) ==
    IF k > Len(L) THEN [s EXCEPT !.found = FALSE]
    ELSE LET u == L[k]
         IN IF u \in DOMAIN s.pred
            THEN LET pu == s.pred[u]
                     s1 == [s EXCEPT !.pred = Del(s.pred, u)]
                     s2 == Recurse(pu, s1)
                 IN IF s2.found
                    THEN [s2 EXCEPT !.matching = Put(s2.matching, v, u), !.found = TRUE]
                    ELSE RecurseLoop(v, L, k + 1, s2)
            ELSE RecurseLoop(v, L, k + 1, s)

Recurse(v, s) ==
    IF v \in DOMAIN s.preds
    THEN RecurseLoop(v, s.preds[v], 1, [s EXCEPT !.preds = Del(s.preds, v)])
    ELSE [s EXCEPT !.found = FALSE]

RecurseLoop(v, L, k, s) ==
    IF k > Len(L) THEN [s EXCEPT !.found = FALSE]
    ELSE LET u == L[k]
         IN IF u \in DOMAIN s.pred
            THEN LET pu == s.pred[u]
                     s1 == [s EXCEPT !.pred = Del(s.pred, u)]
                     s2 == IF pu = UNMATCHED THEN [s1 EXCEPT !.found = TRUE]
                           ELSE Recurse(pu, s1)
                 IN IF s2.found
                    THEN [s2 EXCEPT !.matching = Put(s2.matching, v, u), !.found = TRUE]
                    ELSE RecurseLoop(v, L, k + 1, s2)
            ELSE RecurseLoop(v, L, k + 1, s)

\* lines 478-479: recurse(v) for every v of unmatched.
RECURSIVE AugmentLoop(_, _, _)
AugmentLoop(um, k, s) ==
    IF k > Len(um) THEN s ELSE AugmentLoop(um, k + 1, Recurse(um[k], s))

\* line 516: sorted(matching.items()), pairs (key, value) in ascending key order.
SortedItems(m) ==
    LET order == KeyOrder(m) IN [k \in DOMAIN order |-> <<order[k], m[order[k]]>>]

----------------------------------------------------------------------------
\* The value of the variables of the functions that are not running.

\* The default of t_max (line 182), and of t_min when the caller passes it.
None == -1

MatchIdle ==
    /\ ref = <<>> /\ est = <<>> /\ window = 0
    /\ G = EmptyDict /\ matching = EmptyDict /\ preds = EmptyDict /\ pred = EmptyDict
    /\ unmatched = <<>> /\ layer = <<>> /\ round = 0 /\ result = <<>>

AdjustIdle ==
    /\ call = "" /\ args = <<>> /\ caller_labels = <<>> /\ intervals = <<>>
    /\ events = <<>> /\ labels = <<>> /\ labels_shared = FALSE
    /\ t_min = None /\ t_max = None /\ raised = ""

MergeIdle ==
    /\ x_intervals = <<>> /\ x_labels = <<>> /\ y_intervals = <<>> /\ y_labels = <<>>
    /\ output_intervals = <<>> /\ x_labels_out = <<>> /\ y_labels_out = <<>>

SampleIdle ==
    /\ offset = 0 /\ sample_size = 1 /\ sample_times = <<>> /\ sampled_labels = <<>>

----------------------------------------------------------------------------
\* The matcher as a state machine.

\* The estimated events come in time order, ties included; the reference events
\* in any order, which is what lets the greedy seed of lines 418-423 fall short
\* of a maximum matching.
InitMatch ==
    /\ AdjustIdle /\ MergeIdle /\ SampleIdle
    /\ pc = "match_events"
    /\ ref \in SeqsUpTo(0..MaxEventTime, MaxEvents)
    /\ est \in SortedSeqsUpTo(0..MaxEventTime, MaxEvents)
    /\ window \in 0..MaxWindow
    /\ G = EmptyDict /\ matching = EmptyDict /\ preds = EmptyDict /\ pred = EmptyDict
    /\ unmatched = <<>> /\ layer = <<>> /\ round = 0 /\ result = <<>>

\* match_events lines 505-516 up to the call, and _bipartite_match lines 418-423.
MatchEvents ==
    /\ pc = "match_events"
    /\ G' = BuildGraph(ref, est, window)
    /\ matching' = GreedyMatching(G')
    /\ pc' = "while_true"
    /\ UNCHANGED <<ref, est, window, preds, pred, unmatched, layer, round, result, raised,
                   adjustVars, mergeVars, sampleVars>>

\* lines 425-436: a new round of layering starts; `del pred[matching[v]]`
\* raises when an earlier v has deleted the key already.
StartLayering ==
    /\ pc = "while_true"
    /\ round' = round + 1
    /\ preds' = EmptyDict
    /\ unmatched' = <<>>
    /\ pred' = FirstLayerPred(G, matching)
    /\ IF DeletesTwice(G, matching)
       THEN /\ raised' = "KeyError"
            /\ pc' = "raised"
            /\ UNCHANGED layer
       ELSE /\ layer' = KeyOrder(pred')
            /\ pc' = "layering"
            /\ UNCHANGED raised
    /\ UNCHANGED <<ref, est, window, G, matching, result, adjustVars, mergeVars, sampleVars>>

\* Mutant of LayeringOver: line 439 reads `while layer and unmatched`.
LayeringOverNoNot == layer = <<>> \/ unmatched = <<>>

\* line 439: the condition of `while layer and not unmatched` is false.
LayeringOver == layer = <<>> \/ unmatched # <<>>

\* lines 439-452: one more pair of layers.
ExtendLayering ==
    /\ pc = "layering"
    /\ ~LayeringOver
    /\ \E order \in NewLayerOrders(G, layer, preds) :
         LET s == AbsorbLayer(NewLayer(G, layer, preds), order, 1,
                     [preds |-> preds, pred |-> pred, matching |-> matching,
                      layer |-> <<>>, unmatched |-> unmatched])
         IN /\ preds' = s.preds
            /\ pred' = s.pred
            /\ layer' = s.layer
            /\ unmatched' = s.unmatched
    /\ UNCHANGED <<pc, ref, est, window, G, matching, round, result, raised,
                   adjustVars, mergeVars, sampleVars>>

\* lines 455-461 and match_events lines 516-518: no alternating path, return.
ReturnMatching ==
    /\ pc = "layering"
    /\ LayeringOver
    /\ unmatched = <<>>
    /\ result' = SortedItems(matching)
    /\ pc' = "done"
    /\ UNCHANGED <<ref, est, window, G, matching, preds, pred, unmatched, layer, round, raised,
                   adjustVars, mergeVars, sampleVars>>

\* lines 463-479: the backward search from every unmatched est index.
Augment ==
    /\ pc = "layering"
    /\ LayeringOver
    /\ unmatched # <<>>
    /\ LET s == AugmentLoop(unmatched, 1,
                   [preds |-> preds, pred |-> pred, matching |-> matching, found |-> FALSE])
       IN /\ preds' = s.preds
          /\ pred' = s.pred
          /\ matching' = s.matching
    /\ pc' = "while_true"
    /\ UNCHANGED <<ref, est, window, G, unmatched, layer, round, result, raised,
                   adjustVars, mergeVars, sampleVars>>

NextMatch == MatchEvents \/ StartLayering \/ ExtendLayering \/ ReturnMatching \/ Augment

SpecMatch == InitMatch /\ [][NextMatch]_vars

----------------------------------------------------------------------------
\* adjust_intervals and adjust_events.  The locals travel in a record
\*   [intervals or events, labels, shared, caller]
\* where shared tells that the local `labels` still is the caller's list
\* object, so that insert and append change the caller's list too.

\* labels = labels[a:] and labels = labels[:b]: a new list object.
LabelsFrom(st, given, a) ==
    IF given THEN [st EXCEPT !.labels = DropFirst(@, a), !.shared = FALSE] ELSE st

LabelsUpTo(st, given, b) ==
    IF given THEN [st EXCEPT !.labels = TakeFirst(@, b), !.shared = FALSE] ELSE st

\* labels.insert(0, x) and labels.append(x): in place.
LabelsInsert(st, given, x) ==
    IF given
    THEN [st EXCEPT !.labels = <<x>> \o @,
                    !.caller = IF st.shared THEN <<x>> \o @ ELSE @]
    ELSE st

LabelsAppend(st, given, x) ==
    IF given
    THEN [st EXCEPT !.labels = Append(@, x),
                    !.caller = IF st.shared THEN Append(@, x) ELSE @]
    ELSE st

\* np.maximum(t, intervals) and np.minimum(t, intervals), lines 227 and 247.
ClipLow(t, iv) == [k \in DOMAIN iv |-> <<Max2(t, iv[k][1]), Max2(t, iv[k][2])>>]

\* Mutant of ClipHigh: the np.minimum of line 247 is missing.
ClipHighMissing(t, iv) == iv

ClipHigh(t, iv) == [k \in DOMAIN iv |-> <<Min2(t, iv[k][1]), Min2(t, iv[k][2])>>]

\* adjust_intervals lines 217-233, t_min given.
IntervalsLow(st, given, t) ==
    LET first_idx == ArgWhere(AtLeast(Column(st.intervals, 1), t))
        cropped == IF Len(first_idx) > 0
                   THEN [LabelsFrom(st, given, first_idx[1])
                            EXCEPT !.intervals = DropFirst(@, first_idx[1])]
                   ELSE st
        clipped == [cropped EXCEPT !.intervals = ClipLow(t, @)]
    IN IF clipped.intervals[1][1] > t
       THEN [LabelsInsert(clipped, given, "__T_MIN")
                EXCEPT !.intervals = <<<<t, clipped.intervals[1][1]>>>> \o @]
       ELSE clipped

\* adjust_intervals lines 235-247, t_max given: up to the test of line 249.
IntervalsCut(st, given, t) ==
    LET last_idx == ArgWhere(Above(Column(st.intervals, 0), t))
        cropped == IF Len(last_idx) > 0
                   THEN [LabelsUpTo(st, given, last_idx[1])
                            EXCEPT !.intervals = TakeFirst(@, last_idx[1])]
                   ELSE st
    IN [cropped EXCEPT !.intervals = ClipHigh(t, @)]

\* adjust_intervals lines 249-253; intervals is not empty.
IntervalsHigh(st, given, t) ==
    LET last == st.intervals[Len(st.intervals)][2]
    IN IF last < t
       THEN [LabelsAppend(st, given, "__T_MAX")
                EXCEPT !.intervals = Append(@, <<last, t>>)]
       ELSE st

\* adjust_events lines 285-299, t_min given.
EventsLow(st, given, t) ==
    LET first_idx == ArgWhere(AtLeast(st.events, t))
        cropped == IF Len(first_idx) > 0
                   THEN [LabelsFrom(st, given, first_idx[1])
                            EXCEPT !.events = DropFirst(@, first_idx[1])]
                   ELSE st
    IN IF cropped.events[1] > t
       THEN [LabelsInsert(cropped, given, "__T_MIN") EXCEPT !.events = <<t>> \o @]
       ELSE cropped

\* adjust_events lines 301-309, t_max given: up to the test of line 311.
EventsCut(st, given, t) ==
    LET last_idx == ArgWhere(Above(st.events, t))
    IN IF Len(last_idx) > 0
       THEN [LabelsUpTo(st, given, last_idx[1]) EXCEPT !.events = TakeFirst(@, last_idx[1])]
       ELSE st

\* adjust_events lines 311-315; events is not empty.
EventsHigh(st, given, t) ==
    IF st.events[Len(st.events)] < t
    THEN [LabelsAppend(st, given, "__T_MAX") EXCEPT !.events = Append(@, t)]
    ELSE st

----------------------------------------------------------------------------
\* The adjusters as a state machine.

Locals == [intervals |-> intervals, events |-> events, labels |-> labels,
           shared |-> labels_shared, caller |-> caller_labels]

SetLocals(st) ==
    /\ intervals' = st.intervals
    /\ events' = st.events
    /\ labels' = st.labels
    /\ labels_shared' = st.shared
    /\ caller_labels' = st.caller

InitAdjust ==
    /\ MatchIdle /\ MergeIdle /\ SampleIdle
    /\ pc = "t_min"
    /\ raised = ""
    /\ t_min \in {None} \cup (0..MaxTime)
    /\ t_max \in {None} \cup (0..MaxTime)
    /\ \E given \in BOOLEAN :
         \/ \E b \in Boundaries(0..MaxTime, MaxIntervals) :
              /\ call = "adjust_intervals"
              /\ intervals = Contiguous(b)
              /\ events = <<>>
              /\ labels = IF given THEN LabelsFor(Len(b) - 1) ELSE <<>>
              /\ args = [data |-> intervals, labels |-> labels, given |-> given]
         \/ \E S \in (SUBSET (0..MaxTime)) \ {{}} :
              /\ call = "adjust_events"
              /\ intervals = <<>>
              /\ events = SortedSeq(S)
              /\ labels = IF given THEN LabelsFor(Cardinality(S)) ELSE <<>>
              /\ args = [data |-> events, labels |-> labels, given |-> given]
    /\ caller_labels = labels
    /\ labels_shared = args.given

\* adjust_intervals lines 217-233.
AdjustIntervalsTMin ==
    /\ call = "adjust_intervals" /\ pc = "t_min"
    /\ SetLocals(IF t_min # None THEN IntervalsLow(Locals, args.given, t_min) ELSE Locals)
    /\ pc' = "t_max"
    /\ UNCHANGED <<matchVars, mergeVars, sampleVars, call, args, t_min, t_max, raised>>

\* adjust_intervals lines 235-255; intervals[-1, -1] of an empty array raises.
AdjustIntervalsTMax ==
    /\ call = "adjust_intervals" /\ pc = "t_max"
    /\ IF t_max = None
       THEN /\ pc' = "returned"
            /\ UNCHANGED <<intervals, events, labels, labels_shared, caller_labels, raised>>
       ELSE LET cut == IntervalsCut(Locals, args.given, t_max)
            IN IF cut.intervals = <<>>
               THEN /\ SetLocals(cut)
                    /\ raised' = "IndexError"
                    /\ pc' = "raised"
               ELSE /\ SetLocals(IntervalsHigh(cut, args.given, t_max))
                    /\ pc' = "returned"
                    /\ UNCHANGED raised
    /\ UNCHANGED <<matchVars, mergeVars, sampleVars, call, args, t_min, t_max>>

\* adjust_events lines 285-299.
AdjustEventsTMin ==
    /\ call = "adjust_events" /\ pc = "t_min"
    /\ SetLocals(IF t_min # None THEN EventsLow(Locals, args.given, t_min) ELSE Locals)
    /\ pc' = "t_max"
    /\ UNCHANGED <<matchVars, mergeVars, sampleVars, call, args, t_min, t_max, raised>>

\* adjust_events lines 301-317; events[-1] of an empty array raises.
AdjustEventsTMax ==
    /\ call = "adjust_events" /\ pc = "t_max"
    /\ IF t_max = None
       THEN /\ pc' = "returned"
            /\ UNCHANGED <<intervals, events, labels, labels_shared, caller_labels, raised>>
       ELSE LET cut == EventsCut(Locals, args.given, t_max)
            IN IF cut.events = <<>>
               THEN /\ SetLocals(cut)
                    /\ raised' = "IndexError"
                    /\ pc' = "raised"
               ELSE /\ SetLocals(EventsHigh(cut, args.given, t_max))
                    /\ pc' = "returned"
                    /\ UNCHANGED raised
    /\ UNCHANGED <<matchVars, mergeVars, sampleVars, call, args, t_min, t_max>>

NextAdjust ==
    AdjustIntervalsTMin \/ AdjustIntervalsTMax \/ AdjustEventsTMin \/ AdjustEventsTMax

SpecAdjust == InitAdjust /\ [][NextAdjust]_vars

----------------------------------------------------------------------------
\* merge_labeled_intervals.

\* All the values of an interval array.
Values(iv) == UNION {{iv[k][1], iv[k][2]} : k \in DOMAIN iv}

\* lines 384-386: both overall starts and both overall ends agree.
Aligned(x, y) == x[1][1] = y[1][1] /\ x[Len(x)][2] = y[Len(y)][2]

\* lines 390-393: the intervals between the sorted unique boundaries.
OutputIntervals(x, y) ==
    LET time_boundaries == SortedSeq(Values(x) \cup Values(y))
    IN [k \in 1..(Len(time_boundaries) - 1) |-> <<time_boundaries[k], time_boundaries[k + 1]>>]

\* Mutant of LabelIndex: lines 399 and 401 compare with `>` instead of `>=`.
LabelIndexStrict(iv, t0) ==
    LET idx == ArgWhere(AtMost(Column(iv, 0), t0 - 1))
    IN IF Len(idx) > 0 THEN idx[Len(idx)] ELSE 0

\* lines 399-402: the last index whose interval starts at or before t0.
LabelIndex(iv, t0) ==
    LET idx == ArgWhere(AtMost(Column(iv, 0), t0))
    IN idx[Len(idx)]

LabelsOut(iv, labs, out) == [k \in DOMAIN out |-> At(labs, LabelIndex(iv, out[k][1]))]

InitMerge ==
    /\ MatchIdle /\ AdjustIdle /\ SampleIdle
    /\ pc = "merge_labeled_intervals"
    /\ x_intervals \in {Contiguous(b) : b \in Boundaries(0..MaxTime, MaxIntervals)}
    /\ y_intervals \in {Contiguous(b) : b \in Boundaries(0..MaxTime, MaxIntervals)}
    /\ x_labels = LabelsFor(Len(x_intervals))
    /\ y_labels = LabelsFor(Len(y_intervals))
    /\ output_intervals = <<>> /\ x_labels_out = <<>> /\ y_labels_out = <<>>

\* lines 384-403.
MergeLabeledIntervals ==
    /\ pc = "merge_labeled_intervals"
    /\ IF ~Aligned(x_intervals, y_intervals)
       THEN /\ raised' = "ValueError"
            /\ pc' = "raised"
            /\ UNCHANGED <<output_intervals, x_labels_out, y_labels_out>>
       ELSE /\ output_intervals' = OutputIntervals(x_intervals, y_intervals)
            /\ x_labels_out' = LabelsOut(x_intervals, x_labels, output_intervals')
            /\ y_labels_out' = LabelsOut(y_intervals, y_labels, output_intervals')
            /\ pc' = "returned"
            /\ UNCHANGED raised
    /\ UNCHANGED <<matchVars, sampleVars, x_intervals, x_labels, y_intervals, y_labels,
                   call, args, caller_labels, intervals, events, labels, labels_shared,
                   t_min, t_max>>

NextMerge == MergeLabeledIntervals

SpecMerge == InitMerge /\ [][NextMerge]_vars

----------------------------------------------------------------------------
\* intervals_to_samples over interpolate_intervals.  A time is a number of
\* ticks, sample_size and offset included, so that the division of line 80
\* and the products of line 81 are exact.

MaxOf(S) == CHOOSE x \in S : \A y \in S : y <= x

MinOf(S) == CHOOSE x \in S : \A y \in S : x <= y

\* Mutant of NumSamples: line 80 counts the sample at the last endpoint too.
NumSamplesInclusive(iv, size) == MaxOf(Values(iv)) \div size + 1

\* line 80.
NumSamples(iv, size) == MaxOf(Values(iv)) \div size

\* line 81.
SampleTimes(iv, off, size) == [k \in 1..NumSamples(iv, size) |-> (k - 1) * size + off]

\* np.argmax of a boolean array: the first index where it holds, 0 when none.
ArgMax(mask) ==
    LET idx == ArgWhere(mask) IN IF Len(idx) > 0 THEN idx[1] ELSE 0

\* A Python index, negative ones counted from the end.
PyAt(s, i) == IF i < 0 THEN s[Len(s) + i + 1] ELSE s[i + 1]

\* lines 109-116, with fill_value None.
InterpolateIntervals(iv, labs, time_points) ==
    [k \in DOMAIN time_points |->
        LET tpoint == time_points[k]
        IN IF tpoint < MinOf(Values(iv)) \/ tpoint > MaxOf(Values(iv))
           THEN "None"
           ELSE PyAt(labs, ArgMax(Above(Column(iv, 0), tpoint)) - 1)]

InitSample ==
    /\ MatchIdle /\ MergeIdle
    /\ pc = "intervals_to_samples"
    /\ call = "" /\ args = <<>> /\ caller_labels = <<>> /\ events = <<>>
    /\ labels_shared = FALSE /\ t_min = None /\ t_max = None /\ raised = ""
    /\ intervals \in {Contiguous(b) : b \in Boundaries(0..MaxTime, MaxIntervals)}
    /\ labels = LabelsFor(Len(intervals))
    /\ offset \in 0..MaxOffset
    /\ sample_size \in 1..MaxSampleSize
    /\ sample_times = <<>> /\ sampled_labels = <<>>

\* lines 79-85.
IntervalsToSamples ==
    /\ pc = "intervals_to_samples"
    /\ sample_times' = SampleTimes(intervals, offset, sample_size)
    /\ sampled_labels' = InterpolateIntervals(intervals, labels, sample_times')
    /\ pc' = "returned"
    /\ UNCHANGED <<raised, matchVars, adjustVars, mergeVars, offset, sample_size>>

NextSample == IntervalsToSamples

SpecSample == InitSample /\ [][NextSample]_vars

----------------------------------------------------------------------------
\* Properties of the matcher.

\* The largest number of pairs (i, j), i >= from, of events within the window
\* that use every ref index and every est index outside used at most once.
RECURSIVE BestFrom(_, _)
BestFrom(from, used) ==
    IF from >= Len(ref) THEN 0
    ELSE LET skip == BestFrom(from + 1, used)
             free == {j \in 0..(Len(est) - 1) :
                         j \notin used /\ Abs(At(ref, from) - At(est, j)) <= window}
             take == {1 + BestFrom(from + 1, used \cup {j}) : j \in free}
         IN CHOOSE b \in take \cup {skip} : \A c \in take \cup {skip} : c <= b

\* C1: the matching match_events returns has maximum cardinality: no set of
\* pairs within the window that uses each index at most once has more pairs.
C1_MaximumCardinality ==
    pc = "done" => Len(result) >= BestFrom(0, {})

C1_Witness ==
    /\ pc = "done"
    /\ round >= 2
    /\ Len(result) = MaxEvents
    /\ Cardinality(DOMAIN GreedyMatching(G)) < MaxEvents

\* C2: the returned list is a valid matching: no ref index and no est index is
\* in two returned pairs, and every returned pair links a reference event and
\* an estimated event at most window apart.  A pair is read as the code builds
\* it, an item (est index, ref index) of the dict matching.
C2_ValidMatching ==
    pc = "done" =>
        /\ \A k \in DOMAIN result :
              /\ result[k][1] \in 0..(Len(est) - 1)
              /\ result[k][2] \in 0..(Len(ref) - 1)
              /\ Abs(At(ref, result[k][2]) - At(est, result[k][1])) <= window
        /\ \A k, l \in DOMAIN result :
              k # l => result[k][1] # result[l][1] /\ result[k][2] # result[l][2]

C2_Witness ==
    /\ pc = "done"
    /\ round >= 2
    /\ Len(result) >= 2
    /\ \E k \in DOMAIN result : result[k][1] # result[k][2]

\* C3: every returned element is a pair (ref_index, est_index), the index of a
\* reference event and then the index of the estimated event matched to it,
\* and the list is in ascending order of est_index.
C3_PairsAreRefThenEst ==
    pc = "done" =>
        /\ \A k \in DOMAIN result :
              /\ result[k][1] \in 0..(Len(ref) - 1)
              /\ result[k][2] \in 0..(Len(est) - 1)
              /\ Abs(At(ref, result[k][1]) - At(est, result[k][2])) <= window
        /\ \A k, l \in DOMAIN result : k < l => result[k][2] < result[l][2]

\* One step of the `while True` loop, as C10 describes it.
RoundProgress ==
    /\ (pc = "layering" /\ LayeringOver /\ unmatched # <<>>) =>
          /\ pc' = "while_true"
          /\ Cardinality(DOMAIN matching') >= Cardinality(DOMAIN matching) + 1
    /\ (pc = "layering" /\ LayeringOver /\ unmatched = <<>>) => pc' = "done"
    /\ (pc # "done" /\ pc' = "done") => (pc = "layering" /\ LayeringOver /\ unmatched = <<>>)

\* A natural number that bounds the steps left: the pairs the matching can
\* still gain weigh more than a whole round, and within a round the est
\* indices that the layering has not reached yet weigh more than a step.
RoundWeight == 2 * Len(est) + 4

Measure ==
    IF pc \in {"done", "raised"} THEN 0
    ELSE IF pc = "match_events" THEN (Len(est) + 1) * RoundWeight
    ELSE (Len(est) - Cardinality(DOMAIN matching)) * RoundWeight
         + (IF pc = "while_true" THEN 2 * Len(est) + 3
            ELSE 2 * (Len(est) - Cardinality(DOMAIN preds))
                 + (IF layer # <<>> THEN 1 ELSE 0) + 1)

\* C10: _bipartite_match terminates: a round whose layering reaches an
\* unmatched est index is followed by an augmentation that adds at least one
\* pair to the matching, the loop returns in the first round whose layering
\* reaches none, and the run gets there: nothing is raised, and every step
\* lowers a measure that stays a natural number.
C10_Terminates ==
    /\ [](Measure >= 0 /\ pc # "raised")
    /\ [][RoundProgress /\ Measure' < Measure]_vars

C10_Witness ==
    /\ pc = "done"
    /\ round >= 2
    /\ Len(result) > Cardinality(DOMAIN GreedyMatching(G))

----------------------------------------------------------------------------
\* Properties of the adjusters.

BothGiven == t_min # None /\ t_max # None /\ t_min <= t_max

\* C4: for a non-empty sorted contiguous interval sequence and t_min <= t_max,
\* adjust_intervals returns intervals that start at t_min, end at t_max and
\* tile the range: every start <= end, every end is the next start.
C4_TilesRange ==
    (call = "adjust_intervals" /\ BothGiven) =>
        /\ pc # "raised"
        /\ pc = "returned" =>
              /\ intervals # <<>>
              /\ intervals[1][1] = t_min
              /\ intervals[Len(intervals)][2] = t_max
              /\ \A k \in DOMAIN intervals : intervals[k][1] <= intervals[k][2]
              /\ \A k \in 1..(Len(intervals) - 1) : intervals[k][2] = intervals[k + 1][1]

C4_Witness ==
    /\ call = "adjust_intervals" /\ BothGiven /\ pc = "returned"
    /\ args.given
    /\ labels[1] = "__T_MIN"
    /\ \E k \in DOMAIN args.data : args.data[k][1] < t_max /\ args.data[k][2] > t_max
    /\ \E k \in DOMAIN args.data : args.data[k][1] > t_max

\* No input interval survives the filtering.
NothingSurvives ==
    \/ t_min # None /\ \A k \in DOMAIN args.data : args.data[k][2] < t_min
    \/ t_max # None /\ \A k \in DOMAIN args.data : args.data[k][1] > t_max

\* C6: when filtering leaves no input interval, adjust_intervals fails with an
\* error instead of returning a result.
C6_FailsWhenNothingSurvives ==
    (call = "adjust_intervals" /\ NothingSurvives) => pc # "returned"

\* C7: for a non-empty strictly increasing event sequence and t_min <= t_max,
\* adjust_events returns event times that all lie in [t_min, t_max], the first
\* t_min and the last t_max, with as many labels as events.
C7_EventsWithinRange ==
    (call = "adjust_events" /\ BothGiven /\ pc = "returned") =>
        /\ events # <<>>
        /\ \A k \in DOMAIN events : t_min <= events[k] /\ events[k] <= t_max
        /\ events[1] = t_min
        /\ events[Len(events)] = t_max
        /\ args.given => Len(labels) = Len(events)

\* C8: adjust_intervals and adjust_events leave the caller's labels list with
\* the content it had before the call, whatever t_min and t_max are.
C8_CallerLabelsUnchanged ==
    call \in {"adjust_intervals", "adjust_events"} => caller_labels = args.labels

----------------------------------------------------------------------------
\* Properties of the merger.

\* The x (or y) intervals that contain the interval o.
Containing(iv, o) == {i \in DOMAIN iv : iv[i][1] <= o[1] /\ o[2] <= iv[i][2]}

\* The unit cells [c, c + 1) of the interval o.
Cells(o) == o[1]..(o[2] - 1)

\* C5: for aligned sorted contiguous x and y, every interval that
\* merge_labeled_intervals returns lies in exactly one x interval and exactly
\* one y interval, the labels emitted for it are the labels of those two, and
\* the returned intervals cover exactly the common extent.
C5_CommonRefinement ==
    (pc = "returned" /\ x_intervals # <<>>) =>
        /\ Len(x_labels_out) = Len(output_intervals)
        /\ Len(y_labels_out) = Len(output_intervals)
        /\ \A k \in DOMAIN output_intervals :
              LET o == output_intervals[k]
              IN /\ o[1] < o[2]
                 /\ Cardinality(Containing(x_intervals, o)) = 1
                 /\ Cardinality(Containing(y_intervals, o)) = 1
                 /\ \A i \in Containing(x_intervals, o) : x_labels_out[k] = x_labels[i]
                 /\ \A i \in Containing(y_intervals, o) : y_labels_out[k] = y_labels[i]
        /\ \A k, l \in DOMAIN output_intervals :
              k # l => Cells(output_intervals[k]) \cap Cells(output_intervals[l]) = {}
        /\ UNION {Cells(output_intervals[k]) : k \in DOMAIN output_intervals}
              = Cells(<<x_intervals[1][1], x_intervals[Len(x_intervals)][2]>>)

C5_Witness ==
    /\ pc = "returned" /\ x_intervals # <<>>
    /\ Len(output_intervals) > Len(x_intervals)
    /\ Len(output_intervals) > Len(y_intervals)
    /\ Len(x_intervals) >= 2 /\ Len(y_intervals) >= 2
    /\ \E k \in DOMAIN output_intervals : x_labels_out[k] # y_labels_out[k]

----------------------------------------------------------------------------
\* Properties of the sampler.

Sampled == pc = "returned" /\ intervals # <<>> /\ call = ""

OnGrid == \A k \in DOMAIN sample_times : sample_times[k] = offset + (k - 1) * sample_size

====
